---------------------------- MODULE Spec2Model ----------------------------
(***************************************************************************)
(* The fork-per-connection TCP server of fork_server.c.                    *)
(*                                                                         *)
(* Processes: the parent (main), one child per successful fork (the        *)
(* Worker, running dostuff), the SIGCHLD handler SigCatcher running on the *)
(* parent's stack, and the clients, which are the environment.             *)
(*                                                                         *)
(* Environment choices that the code cannot control are nondeterministic:  *)
(* every system call that can fail may fail, a client may send, half-close,*)
(* close or reset at any time, and signal() installs the handler either    *)
(* with BSD semantics (handler stays installed, interrupted system calls   *)
(* restart) or with System V semantics (handler reset on delivery,         *)
(* interrupted accept returns EINTR), as the C library of the build does.  *)
(***************************************************************************)
EXTENDS Integers, Sequences, FiniteSets, TLC

(***************************************************************************)
(* Bounds of the model.                                                    *)
(***************************************************************************)
MaxConn == 2

(***************************************************************************)
(* Program constants.                                                      *)
(***************************************************************************)
BufSize == 256
ReplyLen == 18
Backlog == 5
ExitFailure == 1
ExitSuccess == 0
ArgcNeeded == 2

\* Status of a process that has not terminated.
Running == ExitSuccess - 1
\* Status of a child terminated by SIGPIPE (128 + 13, as a shell reports it).
KilledBySigpipe == 128 + 13
\* The descriptor of the listening socket in a descriptor table; connected
\* sockets are named by their connection, 1..MaxConn.
LISTEN == 0

Conns == 1..MaxConn
Pids == 1..MaxConn

(***************************************************************************)
(* Byte strings.  A byte string is kept run-length encoded: a sequence of  *)
(* runs <<b, n>>, each standing for n >= 1 bytes of value b, where runs    *)
(* next to each other have different bytes.  So every string has one       *)
(* encoding, and a buffer of 256 bytes is a few runs, with its true length.*)
(***************************************************************************)
Min(a, b) == IF a < b THEN a ELSE b

\* n bytes of value b.
Fill(n, b) == IF n <= 0 THEN <<>> ELSE << <<b, n>> >>

Zeros(n) == Fill(n, 0)

\* The string s followed by the string t.
BCat(s, t) ==
    IF s = <<>> THEN t
    ELSE IF t = <<>> THEN s
    ELSE IF s[Len(s)][1] = t[1][1]
         THEN SubSeq(s, 1, Len(s) - 1)
              \o << <<t[1][1], s[Len(s)][2] + t[1][2]>> >>
              \o Tail(t)
         ELSE s \o t

\* The string of the bytes of the sequence q: one run from each place where
\* the byte changes to the next such place.
Bytes(q) ==
    LET starts == {i \in 1..Len(q) : i = 1 \/ q[i] # q[i - 1]}
        start(k) == CHOOSE i \in starts :
                        Cardinality({j \in starts : j < i}) = k - 1
        next(k) == IF k = Cardinality(starts) THEN Len(q) + 1 ELSE start(k + 1)
    IN [k \in 1..Cardinality(starts) |-> <<q[start(k)], next(k) - start(k)>>]

\* The number of bytes in the first k runs of s.
BytesIn(s, k) ==
    LET e[i \in 0..Len(s)] == IF i = 0 THEN 0 ELSE e[i - 1] + s[i][2]
    IN e[k]

\* The number of bytes of s.
BLen(s) == BytesIn(s, Len(s))

\* The number of runs of s that lie within its first n bytes.
RunsWithin(s, n) == Cardinality({k \in 1..Len(s) : BytesIn(s, k) <= n})

\* The first n bytes of s (all of s when it has fewer).
Take(s, n) ==
    LET m == RunsWithin(s, n)
        part == n - BytesIn(s, m)
    IN IF m = Len(s) \/ part <= 0
       THEN SubSeq(s, 1, m)
       ELSE SubSeq(s, 1, m) \o << <<s[m + 1][1], part>> >>

\* s without its first n bytes.
Drop(s, n) ==
    LET m == RunsWithin(s, n)
        part == n - BytesIn(s, m)
    IN IF m = Len(s) \/ part <= 0
       THEN SubSeq(s, m + 1, Len(s))
       ELSE << <<s[m + 1][1], s[m + 1][2] - part>> >>
            \o SubSeq(s, m + 2, Len(s))

\* The string literal "I got your message" as the compiler stores it: its
\* 18 characters and the terminating NUL.
ReplyLiteral ==
    Bytes(<<73, 32, 103, 111, 116, 32, 121, 111, 117, 114, 32,
            109, 101, 115, 115, 97, 103, 101, 0>>)

\* The bytes write(sockfd, "I got your message", 18) sends.
ReplyBytesEcho(buffer) == buffer
ReplyBytes(buffer) == Take(ReplyLiteral, ReplyLen)

\* bzero(buffer, sizeof(buffer))
ClearedBuffer == Zeros(BufSize)

\* The most read() may store: sizeof(buffer) - 1.
MaxReadWhole == BufSize
MaxRead == BufSize - 1

\* buffer after read() stored the bytes `data` at its start.
StoreAt(buffer, data) == BCat(data, Drop(buffer, BLen(data)))

\* What printf("%s") prints of a buffer: the bytes before its first zero
\* byte.
CStr(buffer) ==
    LET zeros == {k \in 1..Len(buffer) : buffer[k][1] = 0}
    IN IF zeros = {}
       THEN buffer
       ELSE SubSeq(buffer, 1, (CHOOSE k \in zeros : \A j \in zeros : k <= j) - 1)

\* if (n < 0) error(...)
IsErrorEager(n) == n <= 0
IsError(n) == n < 0

\* The requests a client may send: a short line, the longest the buffer
\* takes in one read (with a zero byte among its bytes), and one longer than
\* that.  (The request of no bytes is the client that shuts down its sending
\* side without sending.)
Hello == Bytes(<<104, 101, 108, 108, 111, 10>>)
WithNul == BCat(Bytes(<<104, 105, 0>>), Fill(MaxRead - 3, 97))
Requests == {Hello, WithNul, Fill(MaxRead + 45, 98)}

(***************************************************************************)
(* State.                                                                  *)
(***************************************************************************)
VARIABLES
    argc,        \* number of command-line arguments, the program name included
    sysv,        \* TRUE: signal() has System V semantics; FALSE: BSD semantics
    ppc,         \* the parent's position in main
    pstatus,     \* the parent's exit status, Running while it runs
    pmsg,        \* the message the parent wrote to stderr before exiting
    pfds,        \* the parent's open descriptors
    newsockfd,   \* the parent's newsockfd: what accept returned last
    pid,         \* the parent's pid: what fork returned last
    lsock,       \* the listening socket: "none", "created", "bound", "listening"
    listenRet,   \* what listen() returned (0 or -1), Running before the call
    acceptCalls, \* how often the parent has called accept
    acceptErr,   \* the kind of error the last failed accept returned
    disposition, \* the parent's disposition of SIGCHLD
    sigPending,  \* a SIGCHLD is pending for the parent
    hpc,         \* SigCatcher: "idle" (not running) or "waitpid"
    eintr,       \* the parent's blocked accept was interrupted and not restarted
    backlog,     \* established connections not yet accepted, oldest first
    nconn,       \* connections made so far
    conn,        \* per connection: the client's side and the bytes in flight
    child,       \* per pid: the forked child
    nfork,       \* children forked so far
    users,       \* per connection: the processes that read from or wrote to it
    drained,     \* the children the running SigCatcher has reaped so far
    reaps,       \* per pid: how often waitpid has returned it
    observed     \* per pid: the exit status SigCatcher got from waitpid

vars ==
    <<argc, sysv, ppc, pstatus, pmsg, pfds, newsockfd, pid, lsock, listenRet,
      acceptCalls, acceptErr, disposition, sigPending, hpc, eintr, backlog,
      nconn, conn, child, nfork, users, drained, reaps, observed>>

parentVars ==
    <<ppc, pstatus, pmsg, pfds, newsockfd, pid, lsock, listenRet,
      acceptCalls, acceptErr>>

sigVars == <<disposition, sigPending, hpc, eintr>>

reapVars == <<drained, reaps, observed>>

\* waitpid(-1, NULL, WNOHANG): the status pointer is NULL, so nothing of the
\* child's exit status is stored for the caller (the set of the statuses it
\* has is empty).
NoStatus == {}
StatusStored(status) == NoStatus

NoConn ==
    [cst |-> "none", inbuf |-> <<>>, rcvd |-> <<>>]

NoChild ==
    [pc |-> "unborn", sock |-> 0, inherited |-> {}, fds |-> {},
     buffer |-> <<>>, n |-> 0, reads |-> <<>>, writes |-> <<>>,
     wrote |-> <<>>, printed |-> <<>>, err |-> "", status |-> Running]

\* Where main starts: its first statement is signal(SIGCHLD, SigCatcher),
\* before the arguments are looked at and any socket is made.
EntryPastSignal == "args"
Entry == "signal"

Init ==
    /\ argc \in {1, 2}
    /\ sysv \in BOOLEAN
    /\ ppc = Entry
    /\ pstatus = Running
    /\ pmsg = ""
    /\ pfds = {}
    /\ newsockfd = 0
    /\ pid = 0
    /\ lsock = "none"
    /\ listenRet = Running
    /\ acceptCalls = 0
    /\ acceptErr = "none"
    /\ disposition = "SIG_DFL"
    /\ sigPending = FALSE
    /\ hpc = "idle"
    /\ eintr = FALSE
    /\ backlog = <<>>
    /\ nconn = 0
    /\ conn = [c \in Conns |-> NoConn]
    /\ child = [p \in Pids |-> NoChild]
    /\ nfork = 0
    /\ users = [c \in Conns |-> {}]
    /\ drained = {}
    /\ reaps = [p \in Pids |-> 0]
    /\ observed = [p \in Pids |-> NoStatus]

ParentAlive == ppc # "exited"

Terminated(p) == child[p].pc \in {"zombie", "reaped", "init"}

\* The children of the parent that have terminated and not been waited for.
Zombies == {p \in Pids : child[p].pc = "zombie"}

\* The Workers forked and not reclaimed by SigCatcher.
Outstanding == {p \in Pids : child[p].pc \notin {"unborn", "reaped"}}

\* The Workers still running.
InFlight == {p \in Pids : child[p].pc \notin {"unborn", "zombie", "reaped", "init"}}

\* The processes holding a copy of the descriptor fd (0 is the parent).
Holders(fd) ==
    {p \in Pids : fd \in child[p].fds} \cup (IF fd \in pfds THEN {0} ELSE {})

(***************************************************************************)
(* error(msg) in the parent: perror, exit(1).  The exit closes every       *)
(* descriptor of the parent; its zombies pass to init, which collects them.*)
(***************************************************************************)
ParentExit(msg) ==
    /\ ppc' = "exited"
    /\ pstatus' = ExitFailure
    /\ pmsg' = msg
    /\ pfds' = {}
    /\ sigPending' = FALSE
    /\ child' = [p \in Pids |->
                    IF child[p].pc = "zombie"
                    THEN [child[p] EXCEPT !.pc = "init"]
                    ELSE child[p]]

(***************************************************************************)
(* main, up to the accept loop.                                            *)
(***************************************************************************)
\* signal(SIGCHLD, SigCatcher)
ParentSignal ==
    /\ ppc = "signal"
    /\ hpc = "idle"
    /\ disposition' = "SigCatcher"
    /\ ppc' = "args"
    /\ UNCHANGED <<argc, sysv, reapVars, pstatus, pmsg, pfds, newsockfd, pid,
                   lsock, listenRet, acceptCalls, acceptErr, sigPending, hpc,
                   eintr, backlog, nconn, conn, child, nfork, users>>

\* if (argc < 2) { fprintf(stderr, ...); exit(1); }
ParentArgs ==
    /\ ppc = "args"
    /\ hpc = "idle"
    /\ IF argc < ArgcNeeded
       THEN ParentExit("ERROR, no port provided")
       ELSE /\ ppc' = "socket"
            /\ UNCHANGED <<pstatus, pmsg, pfds, sigPending, child>>
    /\ UNCHANGED <<argc, sysv, reapVars, newsockfd, pid, lsock, listenRet,
                   acceptCalls, acceptErr, disposition, hpc, eintr, backlog,
                   nconn, conn, nfork, users>>

\* sockfd = socket(...); if (sockfd < 0) error("ERROR opening socket");
ParentSocket(ok) ==
    /\ ppc = "socket"
    /\ hpc = "idle"
    /\ IF ok
       THEN /\ lsock' = "created"
            /\ pfds' = {LISTEN}
            /\ ppc' = "bind"
            /\ UNCHANGED <<pstatus, pmsg, sigPending, child>>
       ELSE /\ ParentExit("ERROR opening socket")
            /\ UNCHANGED lsock
    /\ UNCHANGED <<argc, sysv, reapVars, newsockfd, pid, listenRet,
                   acceptCalls, acceptErr, disposition, hpc, eintr, backlog,
                   nconn, conn, nfork, users>>

\* if (bind(...) < 0) error("ERROR on binding");
ParentBind(ok) ==
    /\ ppc = "bind"
    /\ hpc = "idle"
    /\ IF ok
       THEN /\ lsock' = "bound"
            /\ ppc' = "listen"
            /\ UNCHANGED <<pstatus, pmsg, pfds, sigPending, child>>
       ELSE /\ ParentExit("ERROR on binding")
            /\ UNCHANGED lsock
    /\ UNCHANGED <<argc, sysv, reapVars, newsockfd, pid, listenRet,
                   acceptCalls, acceptErr, disposition, hpc, eintr, backlog,
                   nconn, conn, nfork, users>>

\* listen(sockfd, 5); the value it returns is not looked at.
ParentListen(ok) ==
    /\ ppc = "listen"
    /\ hpc = "idle"
    /\ IF ok
       THEN lsock' = "listening" /\ listenRet' = 0
       ELSE lsock' = lsock /\ listenRet' = 0 - 1
    /\ ppc' = "accept"
    /\ UNCHANGED <<argc, sysv, reapVars, pstatus, pmsg, pfds, newsockfd, pid,
                   acceptCalls, acceptErr, disposition, sigPending, hpc, eintr,
                   backlog, nconn, conn, child, nfork, users>>

(***************************************************************************)
(* The accept loop.                                                        *)
(***************************************************************************)
\* accept() blocks until a client connects.
AcceptReady == backlog # <<>>

\* newsockfd = accept(...), returning a connection.
ParentAcceptOk ==
    /\ ppc = "accept"
    /\ hpc = "idle"
    /\ ~eintr
    /\ lsock = "listening"
    /\ AcceptReady
    /\ newsockfd' = Head(backlog)
    /\ backlog' = Tail(backlog)
    /\ pfds' = pfds \cup {Head(backlog)}
    /\ acceptCalls' = acceptCalls + 1
    /\ ppc' = "fork"
    /\ UNCHANGED <<argc, sysv, reapVars, pstatus, pmsg, pid, lsock, listenRet,
                   acceptErr, disposition, sigPending, hpc, eintr, nconn, conn,
                   child, nfork, users>>

\* The errors accept may return in this state: on a socket that is not
\* listening it fails for good (EINVAL); a blocked call that a handler
\* interrupted and that is not restarted fails with EINTR; otherwise it may
\* fail for a temporary condition (ECONNABORTED stands for these: a
\* connection aborted in the queue, EMFILE, ENOBUFS, ...).
AcceptErrors ==
    IF lsock # "listening" THEN {"EINVAL"}
    ELSE IF eintr THEN {"EINTR"}
    ELSE {"ECONNABORTED"}

\* The errors of accept that are temporary conditions.
Transient(e) == e \in {"EINTR", "ECONNABORTED"}

\* newsockfd = accept(...) < 0: error("ERROR on accept"), whatever the error.
ParentAcceptFail(e) ==
    /\ ppc = "accept"
    /\ hpc = "idle"
    /\ e \in AcceptErrors
    /\ acceptErr' = e
    /\ acceptCalls' = acceptCalls + 1
    /\ eintr' = FALSE
    /\ newsockfd' = 0 - 1
    /\ ParentExit("ERROR on accept")
    /\ UNCHANGED <<argc, sysv, reapVars, pid, lsock, listenRet, disposition,
                   hpc, backlog, nconn, conn, nfork, users>>

\* A child as fork() makes it: a copy of the parent, its descriptors included.
ForkedChild ==
    [pc |-> "close_listen", sock |-> newsockfd, inherited |-> pfds,
     fds |-> pfds, buffer |-> <<>>, n |-> 0, reads |-> <<>>,
     writes |-> <<>>, wrote |-> <<>>, printed |-> <<>>, err |-> "",
     status |-> Running]

\* pid = fork(), pid > 0 in the parent and 0 in the new child.
ParentForkOk ==
    /\ ppc = "fork"
    /\ hpc = "idle"
    /\ nfork < MaxConn
    /\ nfork' = nfork + 1
    /\ child' = [child EXCEPT ![nfork + 1] = ForkedChild]
    /\ pid' = nfork + 1
    /\ ppc' = "close_new"
    /\ UNCHANGED <<argc, sysv, reapVars, pstatus, pmsg, pfds, newsockfd, lsock,
                   listenRet, acceptCalls, acceptErr, disposition, sigPending,
                   hpc, eintr, backlog, nconn, conn, users>>

\* pid = fork() < 0: error("ERROR on fork").
ParentForkFail ==
    /\ ppc = "fork"
    /\ hpc = "idle"
    /\ pid' = 0 - 1
    /\ ParentExit("ERROR on fork")
    /\ UNCHANGED <<argc, sysv, reapVars, newsockfd, lsock, listenRet,
                   acceptCalls, acceptErr, disposition, hpc, eintr, backlog,
                   nconn, conn, nfork, users>>

\* The parent's branch after fork: close(newsockfd), back to accept.  It does
\* not wait for the child.
ParentBranchWaits == Terminated(pid)
ParentBranchReady == TRUE

ParentKeepsSocket == pfds
ParentClosesSocket == pfds \ {newsockfd}

ParentClose ==
    /\ ppc = "close_new"
    /\ hpc = "idle"
    /\ ParentBranchReady
    /\ pfds' = ParentClosesSocket
    /\ ppc' = "accept"
    /\ UNCHANGED <<argc, sysv, reapVars, pstatus, pmsg, newsockfd, pid, lsock,
                   listenRet, acceptCalls, acceptErr, disposition, sigPending,
                   hpc, eintr, backlog, nconn, conn, child, nfork, users>>

(***************************************************************************)
(* SIGCHLD and SigCatcher.                                                 *)
(***************************************************************************)
\* The kernel runs the handler of a pending SIGCHLD on the parent's stack.
\* With System V semantics the disposition is reset to the default as the
\* handler starts, and an accept the signal interrupts while it is blocked
\* returns EINTR when the handler is done.
SigDeliver ==
    /\ ParentAlive
    /\ sigPending
    /\ hpc = "idle"
    /\ disposition = "SigCatcher"
    /\ sigPending' = FALSE
    /\ hpc' = "waitpid"
    /\ disposition' = IF sysv THEN "SIG_DFL" ELSE disposition
    /\ eintr' = (eintr \/ (sysv /\ ppc = "accept" /\ lsock = "listening"
                            /\ backlog = <<>>))
    /\ UNCHANGED <<argc, sysv, reapVars, parentVars, backlog, nconn, conn,
                   child, nfork, users>>

\* The children a call of waitpid(-1, ...) can return: the terminated
\* children of the caller that have not been waited for.
ReapableAgain == {p \in Pids : child[p].pc \in {"zombie", "reaped"}}
Reapable == Zombies

\* while (waitpid(-1, NULL, WNOHANG) > 0) ;  one call that finds a zombie.
SigWaitpidReaps(p) ==
    /\ hpc = "waitpid"
    /\ p \in Reapable
    /\ child' = [child EXCEPT ![p].pc = "reaped"]
    /\ drained' = drained \cup {p}
    /\ reaps' = [reaps EXCEPT ![p] = @ + 1]
    /\ observed' = [observed EXCEPT ![p] = StatusStored(child[p].status)]
    /\ UNCHANGED <<argc, sysv, parentVars, sigVars, backlog, nconn, conn,
                   nfork, users>>

\* The loop ends with the first call that finds no zombie (0: children are
\* running; -1: there is no child).
LoopEndsAfterOneCall == TRUE
LoopEnds == Zombies = {}

\* WNOHANG: with no zombie, waitpid returns at once, also while children are
\* running (without the flag it would wait for one of them to terminate).
WaitsForRunningChild == InFlight = {}
NoHang == TRUE

\* The call that ends the loop, and the handler's return.
SigReturn ==
    /\ hpc = "waitpid"
    /\ LoopEnds
    /\ NoHang
    /\ hpc' = "idle"
    /\ drained' = {}
    /\ UNCHANGED <<argc, sysv, parentVars, disposition, sigPending, eintr,
                   backlog, nconn, conn, child, nfork, users, reaps, observed>>

(***************************************************************************)
(* The child: close(sockfd); dostuff(newsockfd); close(newsockfd); exit(0).*)
(***************************************************************************)
\* What the end of a process does to its descriptors: all are closed.
DescriptorsLeftOpen(fds) == fds
DescriptorsAfterExit(fds) == {}

\* The processes that exit(1) in error(), exit(0) in main or a fatal signal
\* ends when the child p runs into it: p alone.
ExitEndsAll(p) == Pids
ExitEnds(p) == {p}

\* The child p terminates with `status` (exit, or death by a signal), after
\* writing msg to stderr; ch is `child` with what p did before that.  The
\* kernel closes its descriptors, keeps it as a zombie for its parent (init
\* collects it when the parent is gone) and raises SIGCHLD for the parent,
\* which the default disposition ignores.
ChildTerminate(ch, p, status, msg) ==
    /\ child' = [q \in Pids |->
           IF q \in ExitEnds(p) /\ (q = p \/ q \in InFlight)
           THEN [ch[q] EXCEPT !.pc = IF ParentAlive THEN "zombie" ELSE "init",
                              !.fds = DescriptorsAfterExit(@),
                              !.buffer = <<>>,
                              !.status = status,
                              !.err = msg]
           ELSE ch[q]]
    /\ sigPending' = IF ParentAlive /\ disposition = "SigCatcher"
                     THEN TRUE
                     ELSE sigPending

\* close(sockfd): the child does not need the listening socket.
ListenKept(fds) == fds
ListenClosed(fds) == fds \ {LISTEN}

ChildCloseListen(p) ==
    /\ child[p].pc = "close_listen"
    /\ child' = [child EXCEPT ![p].fds = ListenClosed(@), ![p].pc = "read"]
    /\ UNCHANGED <<argc, sysv, reapVars, parentVars, sigVars, backlog, nconn,
                   conn, nfork, users>>

\* What read(sockfd, buffer, 255) may return on connection c now: the bytes
\* that have arrived, at most 255 of them; 0 at the end of the stream, when
\* the peer has closed or shut down its sending side; -1 (ECONNRESET) when the
\* peer has reset the connection.  With nothing of these the call blocks.
ReadResults(c) ==
    (IF conn[c].inbuf # <<>> THEN {Min(BLen(conn[c].inbuf), MaxRead)} ELSE {})
    \cup (IF conn[c].inbuf = <<>> /\ conn[c].cst \in {"halfclosed", "closed"}
          THEN {0} ELSE {})
    \cup (IF conn[c].cst = "reset" THEN {0 - 1} ELSE {})

\* dostuff, up to the printf: bzero; n = read(...); if (n < 0) error(...);
\* printf("Message from client: %s\n", buffer).
ChildReadReturns(p, n) ==
    /\ users' = [users EXCEPT ![child[p].sock] = @ \cup {p}]
    /\ IF IsError(n)
       THEN /\ ChildTerminate([child EXCEPT ![p].n = n, ![p].reads = Append(@, n)],
                              p, ExitFailure, "ERROR reading from socket")
            /\ UNCHANGED conn
       ELSE \E c \in {child[p].sock} :
            \E data \in {Take(conn[c].inbuf, n)} :
            \E buf \in {StoreAt(ClearedBuffer, data)} :
            \E msg \in {CStr(buf)} :
            \E rest \in {Drop(conn[c].inbuf, n)} :
               /\ child' = [child EXCEPT ![p] =
                      [@ EXCEPT !.buffer = buf,
                                !.n = n,
                                !.reads = Append(@, n),
                                !.printed = msg,
                                !.pc = "write"]]
               /\ conn' = [conn EXCEPT ![c].inbuf = rest]
               /\ UNCHANGED sigPending
    /\ UNCHANGED <<argc, sysv, reapVars, parentVars, disposition, hpc, eintr,
                   backlog, nconn, nfork>>

\* What write(sockfd, "I got your message", 18) may do on connection c: send
\* the 18 bytes ("sent"); on a connection the peer has reset, return -1
\* ("error") or raise SIGPIPE, which kills the child ("sigpipe").
WriteResults(c) ==
    IF conn[c].cst = "reset" THEN {"error", "sigpipe"} ELSE {"sent"}

\* dostuff, from the write: n = write(...); if (n < 0) error(...).
\* Where the child goes on after the write: dostuff returns, and main closes
\* the connection.
AfterWriteReadsAgain == "read"
AfterWrite == "close_conn"

ChildWriteReturns(p, res) ==
    /\ users' = [users EXCEPT ![child[p].sock] = @ \cup {p}]
    /\ IF res = "sent"
       THEN \E c \in {child[p].sock} :
            \E bytes \in {ReplyBytes(child[p].buffer)} :
            \E len \in {BLen(bytes)} :
            \E got \in {IF conn[c].cst \in {"open", "sent", "halfclosed"}
                        THEN BCat(conn[c].rcvd, bytes)
                        ELSE conn[c].rcvd} :
               /\ child' = [child EXCEPT ![p] =
                      [@ EXCEPT !.n = len,
                                !.writes = Append(@, len),
                                !.wrote = bytes,
                                !.pc = AfterWrite]]
               /\ conn' = [conn EXCEPT ![c].rcvd = got]
               /\ UNCHANGED sigPending
       ELSE /\ IF res = "error"
               THEN ChildTerminate([child EXCEPT ![p].n = 0 - 1,
                                                 ![p].writes = Append(@, 0 - 1)],
                                   p, ExitFailure, "ERROR writing to socket")
               ELSE ChildTerminate(child, p, KilledBySigpipe, "")
            /\ UNCHANGED conn
    /\ UNCHANGED <<argc, sysv, reapVars, parentVars, disposition, hpc, eintr,
                   backlog, nconn, nfork>>

ChildRead(p) ==
    /\ child[p].pc = "read"
    /\ \E n \in ReadResults(child[p].sock) : ChildReadReturns(p, n)

ChildWrite(p) ==
    /\ child[p].pc = "write"
    /\ \E res \in WriteResults(child[p].sock) : ChildWriteReturns(p, res)

\* close(newsockfd), after dostuff returned.
ChildCloseConn(p) ==
    /\ child[p].pc = "close_conn"
    /\ child' = [child EXCEPT ![p].fds = @ \ {child[p].sock},
                              ![p].pc = "exit"]
    /\ UNCHANGED <<argc, sysv, reapVars, parentVars, sigVars, backlog, nconn,
                   conn, nfork, users>>

\* exit(0)
ChildExit(p) ==
    /\ child[p].pc = "exit"
    /\ ChildTerminate(child, p, ExitSuccess, "")
    /\ UNCHANGED <<argc, sysv, reapVars, parentVars, disposition, hpc, eintr,
                   backlog, nconn, conn, nfork, users>>

(***************************************************************************)
(* The clients.                                                            *)
(***************************************************************************)
\* The listening socket lives while a process holds a descriptor of it.
ListenOpen == Holders(LISTEN) # {}

\* The connection lives on the server's side: it waits in the queue of the
\* listening socket, or a process holds a descriptor of it.  What the client
\* does with a connection the server's side has closed reaches nobody.
Live(c) == (ListenOpen /\ \E i \in 1..Len(backlog) : backlog[i] = c)
           \/ Holders(c) # {}

\* A client connects while the port listens and the queue has room; the
\* kernel completes the connection whether or not the parent is in accept.
ClientConnect ==
    /\ lsock = "listening"
    /\ ListenOpen
    /\ nconn < MaxConn
    /\ Len(backlog) < Backlog
    /\ nconn' = nconn + 1
    /\ conn' = [conn EXCEPT ![nconn + 1].cst = "open"]
    /\ backlog' = Append(backlog, nconn + 1)
    /\ UNCHANGED <<argc, sysv, reapVars, parentVars, sigVars, child, nfork,
                   users>>

\* The client sends its request, the bytes r.
ClientSend(c, r) ==
    /\ Live(c)
    /\ conn[c].cst = "open"
    /\ conn' = [conn EXCEPT ![c].cst = "sent", ![c].inbuf = r]
    /\ UNCHANGED <<argc, sysv, reapVars, parentVars, sigVars, backlog, nconn,
                   child, nfork, users>>

\* The client shuts down its sending side and goes on reading.
ClientShutdown(c) ==
    /\ Live(c)
    /\ conn[c].cst \in {"open", "sent"}
    /\ conn' = [conn EXCEPT ![c].cst = "halfclosed"]
    /\ UNCHANGED <<argc, sysv, reapVars, parentVars, sigVars, backlog, nconn,
                   child, nfork, users>>

\* The client closes the connection: it reads no more.
ClientClose(c) ==
    /\ Live(c)
    /\ conn[c].cst \in {"open", "sent", "halfclosed"}
    /\ conn' = [conn EXCEPT ![c].cst = "closed"]
    /\ UNCHANGED <<argc, sysv, reapVars, parentVars, sigVars, backlog, nconn,
                   child, nfork, users>>

\* The client resets the connection.
ClientReset(c) ==
    /\ Live(c)
    /\ conn[c].cst \in {"open", "sent", "halfclosed"}
    /\ conn' = [conn EXCEPT ![c].cst = "reset"]
    /\ UNCHANGED <<argc, sysv, reapVars, parentVars, sigVars, backlog, nconn,
                   child, nfork, users>>

(***************************************************************************)
(* The specification.                                                      *)
(***************************************************************************)
Next ==
    \/ ParentSignal
    \/ ParentArgs
    \/ \E ok \in BOOLEAN : ParentSocket(ok)
    \/ \E ok \in BOOLEAN : ParentBind(ok)
    \/ \E ok \in BOOLEAN : ParentListen(ok)
    \/ ParentAcceptOk
    \/ \E e \in {"EINVAL", "EINTR", "ECONNABORTED"} : ParentAcceptFail(e)
    \/ ParentForkOk
    \/ ParentForkFail
    \/ ParentClose
    \/ SigDeliver
    \/ \E p \in Pids : SigWaitpidReaps(p)
    \/ SigReturn
    \/ \E p \in Pids : ChildCloseListen(p)
    \/ \E p \in Pids : ChildRead(p)
    \/ \E p \in Pids : ChildWrite(p)
    \/ \E p \in Pids : ChildCloseConn(p)
    \/ \E p \in Pids : ChildExit(p)
    \/ ClientConnect
    \/ \E c \in Conns : \E r \in Requests : ClientSend(c, r)
    \/ \E c \in Conns : ClientShutdown(c)
    \/ \E c \in Conns : ClientClose(c)
    \/ \E c \in Conns : ClientReset(c)

Spec == Init /\ [][Next]_vars

(***************************************************************************)
(* The server in operation: the same program where accept and fork do not  *)
(* fail on the listening socket and signal() has BSD semantics, with the   *)
(* scheduling the kernel gives: every process that can take a step         *)
(* eventually takes one, and a pending signal is eventually delivered.     *)
(* The clients are not fair: a client may stay silent for ever.            *)
(***************************************************************************)
InitBSD == Init /\ ~sysv

ParentStep ==
    \/ ParentSignal
    \/ ParentArgs
    \/ \E ok \in BOOLEAN : ParentSocket(ok)
    \/ \E ok \in BOOLEAN : ParentBind(ok)
    \/ \E ok \in BOOLEAN : ParentListen(ok)
    \/ ParentAcceptOk
    \/ ParentAcceptFail("EINVAL")
    \/ ParentForkOk
    \/ ParentClose

SigStep ==
    \/ SigDeliver
    \/ \E p \in Pids : SigWaitpidReaps(p)
    \/ SigReturn

ChildStep(p) ==
    \/ ChildCloseListen(p)
    \/ ChildRead(p)
    \/ ChildWrite(p)
    \/ ChildCloseConn(p)
    \/ ChildExit(p)

ClientStep ==
    \/ ClientConnect
    \/ \E c \in Conns : \E r \in Requests : ClientSend(c, r)
    \/ \E c \in Conns : ClientShutdown(c)
    \/ \E c \in Conns : ClientClose(c)
    \/ \E c \in Conns : ClientReset(c)

NextInOperation ==
    \/ ParentStep
    \/ SigStep
    \/ \E p \in Pids : ChildStep(p)
    \/ ClientStep

Fairness ==
    /\ WF_vars(ParentStep)
    /\ WF_vars(SigStep)
    /\ \A p \in Pids : WF_vars(ChildStep(p))

FairSpec == InitBSD /\ [][NextInOperation]_vars /\ Fairness

(***************************************************************************)
(* The claims.                                                             *)
(***************************************************************************)
\* The 18 bytes of "I got your message".
Reply ==
    Bytes(<<73, 32, 103, 111, 116, 32, 121, 111, 117, 114, 32,
            109, 101, 115, 115, 97, 103, 101>>)

\* The client of connection c reads what the server sends.
Reading(c) == conn[c].cst \in {"open", "sent", "halfclosed"}

\* The client of connection c has gone: it closed or reset the connection.
Gone(c) == conn[c].cst \in {"closed", "reset"}

\* The request of connection c is there for the server to read: bytes have
\* arrived, or the client has ended a request of no bytes by shutting down
\* its sending side.
RequestThere(c) ==
    /\ Reading(c)
    /\ conn[c].inbuf # <<>> \/ conn[c].cst = "halfclosed"

\* The Worker p has returned from a successful write.
Wrote(p) == child[p].writes # <<>> /\ child[p].writes[1] >= 0

\* C1: whatever the requests, the order of the connections and the
\* interleaving of the processes, a client never receives anything but the 18
\* bytes "I got your message", a Worker whose write succeeded has delivered
\* exactly these to a client that still reads, and every client whose request
\* is there for the server receives them unless it goes away first.
C1_NothingButTheReply ==
    /\ \A c \in Conns : conn[c].rcvd \in {<<>>, Reply}
    /\ BLen(Reply) = 18
    /\ \A p \in Pids :
          Wrote(p) /\ Reading(child[p].sock) => conn[child[p].sock].rcvd = Reply

C1_EveryClientGetsTheReply ==
    /\ []C1_NothingButTheReply
    /\ \A c \in Conns :
          RequestThere(c) ~> (conn[c].rcvd = Reply \/ Gone(c))

\* Two clients with requests of different lengths (none, and the longest
\* one read takes) have both received the reply, the later connection served
\* by a Worker that terminated before the Worker of the earlier one.
C1_Witness ==
    \E p, q \in Pids :
        /\ p < q
        /\ child[p].reads = <<MaxRead>>
        /\ child[q].reads = <<0>>
        /\ conn[child[p].sock].rcvd = Reply
        /\ conn[child[q].sock].rcvd = Reply
        /\ ~Terminated(p)
        /\ Terminated(q)

\* C2: every Worker that has terminated is eventually reaped by SigCatcher
\* and stays reaped, so that once the Workers of all connections have
\* terminated the number of outstanding Workers returns to 0.
C2_EveryWorkerIsReaped ==
    /\ \A p \in Pids : (child[p].pc = "zombie") ~> (child[p].pc = "reaped")
    /\ [][\A p \in Pids :
              child[p].pc = "reaped" => child'[p].pc = "reaped"]_vars
    /\ (InFlight = {}) ~> (Outstanding = {} \/ InFlight # {})

\* All the Workers the bound allows have terminated and been reaped, one of
\* them after a failure.
C2_Witness ==
    /\ nfork = MaxConn
    /\ Outstanding = {}
    /\ \E p \in Pids : child[p].status = ExitFailure
    /\ \E p \in Pids : child[p].status = ExitSuccess

\* C3: the parent never waits for a Worker: every connection in the queue
\* is accepted and given a Worker of its own, also when the Workers of
\* earlier connections are blocked in read for ever.
Dispatched(c) == \E p \in Pids : child[p].pc # "unborn" /\ child[p].sock = c

Queued(c) == \E i \in 1..Len(backlog) : backlog[i] = c

C3_AcceptorNeverWaits ==
    /\ \A c \in Conns : Queued(c) ~> Dispatched(c)
    /\ (ppc = "close_new") ~> (ppc = "accept")

\* The Worker of the first connection is blocked in read, its client silent,
\* and the client of the second connection has its reply.
C3_Witness ==
    \E p, q \in Pids :
        /\ p < q
        /\ child[p].pc = "read"
        /\ conn[child[p].sock].cst = "open"
        /\ Wrote(q)
        /\ conn[child[q].sock].rcvd = Reply
        /\ ppc = "accept"

\* The Worker p has come back from dostuff.
Replied(p) == child[p].pc \in {"close_conn", "exit"} \/ child[p].status = ExitSuccess

\* C4: a read that returns 0 is not an error: the Worker whose read returned
\* 0 does not take the error path of read, prints an empty message, goes on to
\* the write (in which SIGPIPE may kill it if the peer has reset the
\* connection since), and has written the 18 bytes of the reply when it comes
\* back from dostuff to close the connection.
C4_ZeroLengthReadIsARequest ==
    \A p \in Pids :
        child[p].reads = <<0>> =>
            /\ child[p].err # "ERROR reading from socket"
            /\ child[p].printed = <<>>
            /\ \/ child[p].pc = "write"
               \/ child[p].writes # <<>>
               \/ child[p].status = KilledBySigpipe
            /\ Replied(p) =>
                  /\ child[p].writes = <<ReplyLen>>
                  /\ child[p].wrote = Reply

\* A client shut down its sending side without sending a byte; the read of
\* its Worker returned 0, the client has the reply, and the Worker has closed
\* the connection and exited with 0.
C4_Witness ==
    \E p \in Pids :
        /\ child[p].reads = <<0>>
        /\ conn[child[p].sock].cst = "halfclosed"
        /\ conn[child[p].sock].rcvd = Reply
        /\ child[p].status = ExitSuccess
        /\ child[p].fds = {}

\* C5: a fork that fails is not fatal: after fork has returned an error the
\* parent is still running, and it has closed the connection it accepted.
C5_DispatchErrorIsNotFatal ==
    pid < 0 => ParentAlive /\ newsockfd \notin pfds /\ pstatus = Running

\* C6: an accept that fails for a temporary condition does not end the
\* server: after such a failure the parent is still running.
C6_TransientAcceptFailureIsNotFatal ==
    Transient(acceptErr) => ParentAlive /\ pstatus = Running

\* The Worker p fails in this step: error() after read or write, or death
\* by SIGPIPE in write.
Fails(p) ==
    /\ child[p].status = Running
    /\ child'[p].status \in {ExitFailure, KilledBySigpipe}

\* C7: the failure of a read or a write in one Worker ends that Worker only:
\* the step in which it fails changes nothing of the parent (which stays
\* where it is in its loop, with its descriptors), nothing of any other
\* Worker and nothing of any other connection.
C7_WorkerFailureIsConfined ==
    [][\A p \in Pids :
          Fails(p) =>
              /\ UNCHANGED parentVars
              /\ \A q \in Pids \ {p} : child'[q] = child[q]
              /\ \A c \in Conns \ {child[p].sock} : conn'[c] = conn[c]
              /\ child'[p].pc \in {"zombie", "init"}]_vars

\* The Worker of the first connection failed in its write; the parent is in
\* accept all the same, and the Worker of the second connection, dispatched
\* and in flight while the first failed or after it, has served its client
\* and exited with 0.
C7_Witness ==
    \E p, q \in Pids :
        /\ p < q
        /\ child[p].status = ExitFailure
        /\ child[p].err = "ERROR writing to socket"
        /\ child[q].status = ExitSuccess
        /\ child[q].reads = <<BLen(Hello)>>
        /\ conn[child[q].sock].rcvd = Reply
        /\ ppc = "accept"

\* C8: a Worker that has terminated, on whatever path (exit(0) at the end,
\* error() after read or write, death by SIGPIPE), holds no descriptor: its
\* copy of the connected socket is closed; and the Worker that reaches exit(0)
\* has closed it itself.
C8_TerminatedWorkerHoldsNothing ==
    \A p \in Pids :
        /\ Terminated(p) => child[p].sock \notin child[p].fds /\ child[p].fds = {}
        /\ child[p].pc = "exit" => child[p].sock \notin child[p].fds

\* Two Workers have terminated on different paths, one in error() after a
\* failed write and one in exit(0); each had the listening socket and its
\* connection from fork, and neither holds a descriptor.
C8_Witness ==
    \E p, q \in Pids :
        /\ Terminated(p) /\ Terminated(q)
        /\ child[p].err = "ERROR writing to socket"
        /\ child[q].status = ExitSuccess
        /\ child[p].inherited = {LISTEN, child[p].sock}
        /\ child[q].inherited = {LISTEN, child[q].sock}
        /\ child[p].fds = {} /\ child[q].fds = {}

\* C9: the connection the parent accepts goes to one Worker and to no one
\* else: every Worker gets from fork the one connection it is to serve, no
\* connection is held by two processes once the parent is back at accept, the
\* parent there holds the listening socket only, and no one but the Worker of
\* a connection ever reads from it or writes to it.
C9_OneWorkerOwnsTheConnection ==
    /\ \A c \in Conns : Cardinality({p \in Pids : c \in child[p].inherited}) <= 1
    /\ \A p \in Pids : child[p].fds \cap Conns \subseteq {child[p].sock}
    /\ ppc = "accept" => pfds = {LISTEN}
    /\ ppc = "accept" => \A c \in Conns : Cardinality(Holders(c)) <= 1
    /\ \A c \in Conns : users[c] \subseteq {p \in Pids : child[p].sock = c}

\* The parent is back at accept after two connections, holding the listening
\* socket only; each connection is held by its own Worker, and each Worker
\* has done I/O on it.
C9_Witness ==
    /\ ppc = "accept"
    /\ acceptCalls = MaxConn
    /\ pfds = {LISTEN}
    /\ \A p \in Pids : child[p].fds = {child[p].sock} /\ users[child[p].sock] = {p}
    /\ \A p, q \in Pids : p # q => child[p].sock # child[q].sock

\* C10: a failure of bind or of listen is fatal before the server listens:
\* after either, the parent has exited with a status that is not 0 and has
\* never called accept.
C10_StartupFailureIsFatal ==
    /\ pmsg = "ERROR on binding" => pstatus = ExitFailure /\ acceptCalls = 0
    /\ listenRet < 0 => acceptCalls = 0 /\ ppc \notin {"fork", "close_new"}

\* C11: one run of SigCatcher drains every termination that is pending: the
\* handler returns only from a waitpid call that found no terminated child,
\* so in the step in which it returns no child is a zombie, however many
\* terminations the one SIGCHLD stood for.
C11_HandlerDrainsAll ==
    [][hpc = "waitpid" /\ hpc' = "idle" =>
          /\ Zombies = {}
          /\ \A p \in Pids : child'[p].pc # "zombie"
          /\ \A p \in drained : child'[p].pc = "reaped"]_vars

\* All the Workers the bound allows terminated before the one SIGCHLD was
\* delivered (none is pending now), and this one run of SigCatcher, about to
\* return, has reaped every one of them.
C11_Witness ==
    /\ hpc = "waitpid"
    /\ drained = Pids
    /\ Cardinality(drained) >= 2
    /\ Zombies = {}
    /\ ~sigPending

\* C12: SigCatcher never blocks: while it runs, its next waitpid call can
\* always be taken at once (it reaps a zombie, or finds none and ends the
\* loop, also while Workers are running); every call but the last reaps a
\* child that was not reaped before, so one run makes at most one call more
\* than there are children, and it reaps no child that is still running.
C12_HandlerNeverBlocks ==
    hpc = "waitpid" =>
        /\ Zombies = {} => ENABLED SigReturn
        /\ Zombies # {} => \E p \in Zombies : ENABLED SigWaitpidReaps(p)
        /\ Cardinality(drained) <= nfork
        /\ \A p \in drained : reaps[p] = 1
        /\ drained \cap InFlight = {}

\* SigCatcher has run and returned, having reaped the Worker of the second
\* connection, while the Worker of the first is still blocked in read, its
\* client silent.
C12_Witness ==
    \E p, q \in Pids :
        /\ p < q
        /\ child[p].pc = "read"
        /\ conn[child[p].sock].cst = "open"
        /\ child[q].pc = "reaped"
        /\ hpc = "idle"
        /\ ~sigPending

\* C13: no Worker is reaped twice, and a run of SigCatcher that finds no
\* zombie is a no-op: waitpid has returned each child at most once, exactly
\* the reaped ones; a child becomes reaped only from being a zombie; and the
\* steps of the handler (its start and its return) taken with no zombie
\* leave the outstanding Workers, every child, the parent, the connections
\* and the queue as they are.
C13_ReapedAtMostOnce ==
    /\ [](\A p \in Pids :
            /\ reaps[p] <= 1
            /\ reaps[p] = 1 <=> child[p].pc = "reaped")
    /\ [][\A p \in Pids :
             child'[p].pc = "reaped" /\ child[p].pc # "reaped"
                 => child[p].pc = "zombie"]_vars
    /\ [][hpc' # hpc /\ Zombies = {} =>
             /\ Outstanding' = Outstanding
             /\ UNCHANGED <<child, parentVars, conn, backlog, users, nconn,
                            nfork, reaps, observed>>]_vars

\* SigCatcher has been started by a notification that is a duplicate: the
\* Workers that terminated were all reaped by an earlier run, there is no
\* zombie, and this run has reaped nothing.
C13_Witness ==
    /\ hpc = "waitpid"
    /\ Zombies = {}
    /\ drained = {}
    /\ \A p \in Pids : reaps[p] = 1

\* SigCatcher is the disposition of SIGCHLD, or was until the delivery of a
\* SIGCHLD reset it (System V semantics).
InstalledBefore ==
    \/ disposition = "SigCatcher"
    \/ sysv /\ (hpc = "waitpid" \/ \E p \in Pids : reaps[p] > 0)

\* C14: SigCatcher is installed before the accept loop: in every state in
\* which the parent is in its loop, has called accept or has forked, or in
\* which a Worker exists (running or terminated), signal(SIGCHLD, SigCatcher)
\* has been called; and a Worker that terminates while its parent runs either
\* raises a SIGCHLD for the handler or finds the handler running.
C14_HandlerInstalledFirst ==
    /\ \/ ppc \in {"accept", "fork", "close_new"}
       \/ acceptCalls > 0
       \/ nfork > 0
       \/ \E p \in Pids : child[p].pc # "unborn"
       => ppc # "signal" /\ InstalledBefore
    /\ ~sysv /\ ParentAlive /\ Zombies # {} => sigPending \/ hpc = "waitpid"

\* A Worker has terminated and another is running, SigCatcher is installed
\* and the SIGCHLD of the first is pending for it.
C14_Witness ==
    /\ Zombies # {}
    /\ InFlight # {}
    /\ disposition = "SigCatcher"
    /\ sigPending
    /\ hpc = "idle"
    /\ \A p \in Pids : reaps[p] = 0

\* The Worker p has closed its connection, or lost it by terminating.
Closed(p) == child[p].pc # "unborn" /\ child[p].sock \notin child[p].fds

\* C15: one request, one reply, one close, in that order: a Worker reads at
\* most once and writes at most once; it writes only after its read has
\* returned without error; when it has closed the connection itself it has
\* read once and written once; and once the Worker has closed the connection
\* nobody reads from it or writes to it any more: the Worker's reads and
\* writes, the processes that did I/O on the connection and what the client
\* was sent stay as they are.
C15_OneRequestOneReplyOneClose ==
    /\ [](\A p \in Pids :
            /\ Len(child[p].reads) <= 1
            /\ Len(child[p].writes) <= 1
            /\ child[p].pc \in {"unborn", "close_listen", "read"}
                  => child[p].reads = <<>>
            /\ child[p].writes # <<>>
                  => child[p].reads # <<>> /\ child[p].reads[1] >= 0
            /\ Closed(p) /\ child[p].status \in {Running, ExitSuccess}
                  => Len(child[p].reads) = 1 /\ child[p].writes = <<ReplyLen>>
            /\ child[p].pc # "unborn" => users[child[p].sock] \subseteq {p})
    /\ [][\A p \in Pids :
             Closed(p) =>
                 /\ child'[p].reads = child[p].reads
                 /\ child'[p].writes = child[p].writes
                 /\ users'[child[p].sock] = users[child[p].sock]
                 /\ conn'[child[p].sock].rcvd = conn[child[p].sock].rcvd
                 /\ Closed(p)']_vars

\* A Worker has read the request of its client once, written the reply once
\* and closed the connection; it is about to exit.
C15_Witness ==
    \E p \in Pids :
        /\ child[p].pc = "exit"
        /\ child[p].reads = <<BLen(Hello)>>
        /\ child[p].writes = <<ReplyLen>>
        /\ Closed(p)
        /\ users[child[p].sock] = {p}
        /\ conn[child[p].sock].rcvd = Reply

\* The positions of a child: the child branch of main, and what becomes of
\* the process after it.
ChildPositions ==
    {"unborn", "close_listen", "read", "write", "close_conn", "exit",
     "zombie", "reaped", "init"}

\* C16: the listening socket is used by the parent only: a Worker has closed
\* its copy before it reads or writes and never holds it again; every step
\* that takes a connection from the queue, counts a call of accept, forks a
\* child or changes the listening socket is a step of the parent, which
\* leaves every running Worker as it is; and a Worker that has reached
\* exit(0) terminates: no Worker is ever at a position of the accept loop.
C16_ListenSocketIsTheAcceptors ==
    /\ [](\A p \in Pids :
            /\ child[p].pc \in ChildPositions
            /\ child[p].pc \notin {"unborn", "close_listen"}
                  => LISTEN \notin child[p].fds
            /\ child[p].reads # <<>> \/ child[p].writes # <<>>
                  => LISTEN \notin child[p].fds
            /\ \A c \in Conns : p \in users[c] => LISTEN \notin child[p].fds)
    /\ [][\/ Len(backlog') < Len(backlog)
          \/ acceptCalls' # acceptCalls
          \/ nfork' # nfork
          \/ lsock' # lsock
          => /\ ppc \in {"socket", "bind", "listen", "accept", "fork"}
             /\ ppc' # ppc
             /\ \A p \in InFlight : child'[p] = child[p]]_vars
    /\ [][\A p \in Pids :
             child[p].pc = "exit" => child'[p].pc \in {"exit", "zombie", "init"}]_vars

\* Two Workers got the listening socket from fork and closed it; one is in
\* read and one in write, and the parent, in accept, is the only holder of
\* the listening socket.
C16_Witness ==
    \E p, q \in Pids :
        /\ child[p].pc = "read"
        /\ child[q].pc = "write"
        /\ LISTEN \in child[p].inherited /\ LISTEN \in child[q].inherited
        /\ Holders(LISTEN) = {0}
        /\ ppc = "accept"

\* C17: a Worker that fails its read or write terminates with a status that
\* is not that of success, and SigCatcher, when it reaps a Worker that
\* failed, has that Worker's status from waitpid.
C17_FailureIsReportedToReaper ==
    \A p \in Pids :
        /\ child[p].err # "" => child[p].status \notin {Running, ExitSuccess}
        /\ child[p].pc = "reaped" /\ child[p].status # ExitSuccess
              => observed[p] = {child[p].status}

\* C18: the server stops only with no Worker outstanding: whenever the parent
\* has exited, every Worker it forked has terminated and been reaped by it.
C18_StopsOnlyWhenDrained ==
    ppc = "exited" => Outstanding = {} /\ InFlight = {}

\* C19: the termination of a Worker never stops the parent: when SigCatcher
\* has run while the parent was blocked in accept, and also when that accept
\* returns EINTR, the parent is still running and has not taken the exit of
\* "ERROR on accept".
C19_TerminationNeverStopsAcceptor ==
    acceptErr = "EINTR" => ParentAlive /\ pmsg # "ERROR on accept"

\* The Worker p has its buffer: it is in dostuff past the read, or back in
\* main before exit.
HasBuffer(p) == child[p].pc \in {"write", "close_conn", "exit"}

\* C20: the buffer is a terminated string within its bounds: past the read
\* it has its 256 bytes, the read stored at most 255 of them, its last byte
\* is 0 and so are all bytes behind those read, and what was printed is the
\* bytes read up to the first zero byte among them, at most 255 bytes.
C20_BufferIsTerminatedString ==
    \A p \in Pids :
        /\ BLen(child[p].printed) <= MaxRead
        /\ HasBuffer(p) =>
              /\ BLen(child[p].buffer) = BufSize
              /\ child[p].reads[1] <= MaxRead
              /\ child[p].buffer[Len(child[p].buffer)][1] = 0
              /\ Drop(child[p].buffer, child[p].reads[1])
                    = Zeros(BufSize - child[p].reads[1])
              /\ child[p].printed = CStr(Take(child[p].buffer, child[p].reads[1]))
              /\ child[p].printed = CStr(child[p].buffer)

\* One Worker has read 255 bytes of a request of 300 (45 are left unread)
\* and printed 255 bytes; another has read a request of 255 bytes whose third
\* is a zero byte, and printed the two before it.
C20_Witness ==
    \E p, q \in Pids :
        /\ HasBuffer(p) /\ HasBuffer(q)
        /\ child[p].reads = <<MaxRead>>
        /\ BLen(conn[child[p].sock].inbuf) = 45
        /\ BLen(child[p].printed) = MaxRead
        /\ child[q].reads = <<MaxRead>>
        /\ conn[child[q].sock].inbuf = <<>>
        /\ child[q].buffer = BCat(WithNul, Zeros(1))
        /\ child[q].printed = Bytes(<<104, 105>>)

=============================================================================
